---- MODULE Spec2Model ----
(***************************************************************************)
(* The translation pipeline of lib/translation_pipeline_stack.py: a bucket *)
(* with two triggers (an EventBridge rule that starts the state machine,   *)
(* a bucket notification that invokes lambda/filter.py) and a Step         *)
(* Functions state machine                                                 *)
(*   Filter -> Should Process? -> Generate UUID -> Transcribe ->           *)
(*   Get Transcription -> Translate -> Synthesize Speech                   *)
(* together with the two Lambda handlers lambda/filter.py and              *)
(* lambda/polly.py.  The JSON state document threaded between the states   *)
(* is a record; a JSON path selects a value only when every member on the  *)
(* way exists.  Strings that the code inspects or builds (object keys, job *)
(* names, URIs) are sequences of tokens, so that startswith and            *)
(* States.Format are computed rather than assumed.                         *)
(***************************************************************************)
EXTENDS Integers, Sequences, FiniteSets, TLC

\* ------------------------------------------------------------------------
\* Bounds of the model
\* ------------------------------------------------------------------------
Runs == {"r1", "r2", "r3"}           \* objects arriving, one run each
Ids == {"u1", "u2"}                  \* values the run-id generator can return
StackBucket == "stack-bucket"        \* bucket.bucket_name of the stack

KeyUpload == <<"uploads", "/", "a.wav">>
KeyOutput == <<"translations", "/", "x.mp3">>
KeyNear == <<"translations", ".txt">>
EventKeys == {KeyUpload, KeyOutput, KeyNear}

\* ------------------------------------------------------------------------
\* JSON documents and paths
\* ------------------------------------------------------------------------
\* A path selects a value only when every member on the way exists.
Has(d, f) == f \in DOMAIN d

Present1(d, a) == Has(d, a)
Present2(d, a, b) == Has(d, a) /\ Has(d[a], b)
Present3(d, a, b, c) == Has(d, a) /\ Has(d[a], b) /\ Has(d[a][b], c)

\* ResultPath "$.f": the result replaces the node f of the state input
SetField(d, f, v) ==
    [x \in (DOMAIN d) \cup {f} |-> IF x = f THEN v ELSE d[x]]

StartsWith(s, p) == Len(s) >= Len(p) /\ SubSeq(s, 1, Len(p)) = p

\* ------------------------------------------------------------------------
\* lambda/filter.py
\* ------------------------------------------------------------------------
OutputPrefix == <<"translations", "/">>

\* event['Records'][0]['s3'][...] raises KeyError on any other layout
filter_raises(event) == event.event.shape # "Records"

\* a handler that compares the key with the wrong prefix
filter_handler_WrongPrefix(event) ==
    LET bucket == event.event.bucket
        key == event.event.key
    IN  IF StartsWith(key, <<"uploads", "/">>)
        THEN [should_process |-> FALSE]
        ELSE [should_process |-> TRUE, bucket |-> bucket, key |-> key]

filter_handler(event) ==
    LET bucket == event.event.bucket
        key == event.event.key
    IN  IF StartsWith(key, OutputPrefix)
        THEN [should_process |-> FALSE]
        ELSE [should_process |-> TRUE, bucket |-> bucket, key |-> key]

\* ------------------------------------------------------------------------
\* The two triggers of the bucket
\* ------------------------------------------------------------------------
\* bucket.add_event_notification(OBJECT_CREATED, LambdaDestination): the
\* notification of an object, in the layout S3 hands to a Lambda
S3Notification(bucket, key) ==
    [shape |-> "Records", bucket |-> bucket, key |-> key]

\* the event of the same object on the event bus (source aws.s3)
EventBridgeEvent(bucket, key) ==
    [shape |-> "EventBridge", bucket |-> bucket, key |-> key]

\* bucket = s3.Bucket(removal_policy = DESTROY): event_bridge_enabled is
\* left at its default, the bucket sends no event to the event bus
event_bridge_enabled == FALSE

\* rule: event_pattern = {source: aws.s3, detail.bucket.name:
\* [bucket.bucket_name], detail.object.key: [{prefix: 'uploads/'}]}
RuleMatches(ev) ==
    /\ ev.shape = "EventBridge"
    /\ ev.bucket = StackBucket
    /\ StartsWith(ev.key, <<"uploads", "/">>)

\* ------------------------------------------------------------------------
\* Step Functions: the lambda:invoke integration
\* ------------------------------------------------------------------------
\* LambdaInvoke with payload_response_only left at its default (False):
\* the task result is the invocation record, the handler's return value
\* is its Payload member.
Envelope(ret) == [Payload |-> ret, StatusCode |-> 200]

\* LambdaInvoke with retry_on_service_exceptions left at its default (True):
\* Lambda service exceptions are retried MaxAttempts times.
MaxAttempts == 6

LambdaOutcomes == {"ok", "service_exception"}

\* ------------------------------------------------------------------------
\* State
\* ------------------------------------------------------------------------
VARIABLES
    cur,        \* cur[r]: the state the execution r is in (or stopped in)
    status,     \* status[r]: NONE, RUNNING, SUCCEEDED, FAILED, ABORTED
    error,      \* error[r]: error name of a FAILED execution
    doc,        \* doc[r]: the JSON state document
    attempts,   \* attempts[r]: retries used by the current Lambda task
    inflight,   \* inflight[r]: the call the task of r waits for
    calls,      \* calls[r][c]: invocations of collaborator c by run r
    hist,       \* hist[r]: what run r was given and handed to collaborators
    jobs,       \* the transcription service's job records
    blob,       \* the blob store: records [bucket, key, body]
    writes      \* log of blob writes: records [run, stage, bucket, key,
                \* decision], decision: what lambda/filter.py returned on
                \* the notification of the written object

vars == <<cur, status, error, doc, attempts, inflight, calls, hist, jobs,
          blob, writes>>

run_vars == <<cur, status, error, doc, attempts>>
env_vars == <<jobs, blob, writes>>

Collaborators ==
    {"filter", "uuid", "submit", "query", "translate", "synthesize", "put"}

NoError == "none"

NoEvent == [bucket |-> "none", key |-> <<>>]

NoDecision == [none |-> TRUE]

NoHist ==
    [event |-> NoEvent,      \* the object whose arrival the run is about
     decision |-> NoDecision,\* what lambda/filter.py returned to the bucket
     uuid |-> "none",        \* the id returned by the run-id generator
     job |-> <<>>,           \* the job name submitted
     observed |-> "none",    \* the job status seen by the status query
     uri |-> <<>>,           \* the transcript URI seen by the status query
     text |-> <<>>,          \* the text handed to the Translator
     spoken |-> <<>>,        \* the text handed to TextToSpeech
     bucket |-> "none",      \* the bucket handed to the output write
     key |-> <<>>,           \* the key handed to the output write
     cancelled |-> FALSE]    \* a stop of the execution was requested

\* no call under way
Idle == [step |-> "idle"]

Init ==
    /\ cur = [r \in Runs |-> "idle"]
    /\ status = [r \in Runs |-> "NONE"]
    /\ error = [r \in Runs |-> NoError]
    /\ doc = [r \in Runs |-> [none |-> TRUE]]
    /\ attempts = [r \in Runs |-> 0]
    /\ inflight = [r \in Runs |-> Idle]
    /\ calls = [r \in Runs |-> [c \in Collaborators |-> 0]]
    /\ hist = [r \in Runs |-> NoHist]
    /\ jobs = {}
    /\ blob = {}
    /\ writes = {}

Called(r, c) == [calls EXCEPT ![r][c] = @ + 1]

\* a task failure with no Catch: the execution stops FAILED in that state
Fail(r, err) ==
    /\ status' = [status EXCEPT ![r] = "FAILED"]
    /\ error' = [error EXCEPT ![r] = err]
    /\ attempts' = [attempts EXCEPT ![r] = 0]
    /\ UNCHANGED <<cur, doc>>

\* a task that succeeded: the execution moves to the next state of the chain
Goto(r, next, d) ==
    /\ cur' = [cur EXCEPT ![r] = next]
    /\ doc' = [doc EXCEPT ![r] = d]
    /\ attempts' = [attempts EXCEPT ![r] = 0]
    /\ UNCHANGED <<status, error>>

\* a retried Lambda service exception: same state, one attempt used
Retry(r) ==
    /\ attempts' = [attempts EXCEPT ![r] = @ + 1]
    /\ UNCHANGED <<cur, status, error, doc>>

\* a task made its call and waits for the response: the response that is
\* on its way, a result with which the execution goes on or an error
Succeeds(r, next, d) ==
    inflight' = [inflight EXCEPT ![r] =
                    [step |-> "response", ok |-> TRUE, next |-> next,
                     doc |-> d, error |-> NoError]]

Errors(r, err) ==
    inflight' = [inflight EXCEPT ![r] =
                    [step |-> "response", ok |-> FALSE, next |-> cur[r],
                     doc |-> doc[r], error |-> err]]

\* ------------------------------------------------------------------------
\* Arrival of an object and the two triggers
\* ------------------------------------------------------------------------
\* an object with the given key is created in the stack's bucket
ObjectCreated(r, key) ==
    /\ hist[r].event = NoEvent
    /\ hist' = [hist EXCEPT ![r].event = [bucket |-> StackBucket, key |-> key]]
    /\ UNCHANGED <<run_vars, inflight, calls, env_vars>>

\* bucket.add_event_notification: S3 invokes lambda/filter.py with the
\* notification of the object; the handler's return value goes nowhere
BucketNotification(r) ==
    /\ hist[r].event # NoEvent /\ hist[r].decision = NoDecision
    /\ LET event == [event |-> S3Notification(hist[r].event.bucket,
                                              hist[r].event.key)]
       IN  /\ calls' = Called(r, "filter")
           /\ hist' = [hist EXCEPT ![r].decision =
                          IF filter_raises(event)
                          THEN [raised |-> "KeyError"]
                          ELSE filter_handler(event)]
    /\ UNCHANGED <<run_vars, inflight, env_vars>>

\* bucket.add_event_notification: an object written by the pipeline itself
\* is an object created in the bucket; S3 invokes lambda/filter.py with its
\* notification as well
OutputNotification(w) ==
    /\ w \in writes /\ w.decision = NoDecision
    /\ LET event == [event |-> S3Notification(w.bucket, w.key)]
       IN  /\ calls' = Called(w.run, "filter")
           /\ writes' = (writes \ {w}) \cup
                  {[w EXCEPT !.decision =
                       IF filter_raises(event)
                       THEN [raised |-> "KeyError"]
                       ELSE filter_handler(event)]}
    /\ UNCHANGED <<run_vars, inflight, hist, jobs, blob>>

\* rule.add_target(SfnStateMachine): an event of the object that reaches
\* the event bus and matches the rule starts an execution with that event
\* as input
StartExecution(r) ==
    /\ event_bridge_enabled
    /\ status[r] = "NONE" /\ hist[r].event # NoEvent
    /\ LET ev == EventBridgeEvent(hist[r].event.bucket, hist[r].event.key)
       IN  /\ RuleMatches(ev)
           /\ doc' = [doc EXCEPT ![r] = [event |-> ev]]
    /\ status' = [status EXCEPT ![r] = "RUNNING"]
    /\ cur' = [cur EXCEPT ![r] = "Filter"]
    /\ UNCHANGED <<error, attempts, inflight, calls, hist>>
    /\ UNCHANGED env_vars

\* state_machine: a running execution can be stopped; it ends ABORTED in
\* the state it is in and runs no further state.  An invocation of a
\* Lambda that is under way is not interrupted.
StopExecution(r) ==
    /\ status[r] = "RUNNING" /\ ~hist[r].cancelled
    /\ status' = [status EXCEPT ![r] = "ABORTED"]
    /\ hist' = [hist EXCEPT ![r].cancelled = TRUE]
    /\ UNCHANGED <<cur, error, doc, attempts, inflight, calls, env_vars>>

\* ------------------------------------------------------------------------
\* The states of the machine
\* ------------------------------------------------------------------------
\* filter_task: LambdaInvoke, result_path = "$.filter_result"; the task
\* invokes the handler and waits for the response
filter_task(r, o) ==
    /\ status[r] = "RUNNING" /\ cur[r] = "Filter"
    /\ inflight[r] = Idle
    /\ IF o = "service_exception"
       THEN /\ UNCHANGED <<calls, inflight>>
            /\ IF attempts[r] < MaxAttempts
               THEN Retry(r)
               ELSE Fail(r, "Lambda.ServiceException")
       ELSE /\ calls' = Called(r, "filter")
            /\ IF filter_raises(doc[r])
               THEN Errors(r, "KeyError")
               ELSE Succeeds(r, "Should Process?",
                             SetField(doc[r], "filter_result",
                                      Envelope(filter_handler(doc[r]))))
            /\ UNCHANGED run_vars
    /\ UNCHANGED <<hist, env_vars>>

\* the response of the call a task waits for arrives: an execution that is
\* still running applies it and moves on, or fails with the error (no
\* Catch); a stopped execution has no use for it
task_response(r) ==
    /\ inflight[r] # Idle /\ inflight[r].step = "response"
    /\ inflight' = [inflight EXCEPT ![r] = Idle]
    /\ IF status[r] # "RUNNING"
       THEN UNCHANGED run_vars
       ELSE IF inflight[r].ok
            THEN Goto(r, inflight[r].next, inflight[r].doc)
            ELSE Fail(r, inflight[r].error)
    /\ UNCHANGED <<calls, hist, env_vars>>

\* choice.when(is_process, ...).otherwise(Pass "Do Nothing"):
\* a Variable path that selects nothing fails the Choice state
choice(r) ==
    /\ status[r] = "RUNNING" /\ cur[r] = "Should Process?"
    /\ IF ~Present2(doc[r], "filter_result", "should_process")
       THEN Fail(r, "States.Runtime")
       ELSE IF doc[r].filter_result.should_process = TRUE
            THEN Goto(r, "Generate UUID", doc[r])
            ELSE Goto(r, "Do Nothing", doc[r])
    /\ UNCHANGED <<inflight, calls, hist, env_vars>>

\* sfn.Pass "Do Nothing": no next state, the execution ends SUCCEEDED
do_nothing(r) ==
    /\ status[r] = "RUNNING" /\ cur[r] = "Do Nothing"
    /\ status' = [status EXCEPT ![r] = "SUCCEEDED"]
    /\ UNCHANGED <<cur, error, doc, attempts>>
    /\ UNCHANGED <<inflight, calls, hist, env_vars>>

\* ------------------------------------------------------------------------
\* The collaborators
\* ------------------------------------------------------------------------
\* States.Format('transcription-{}', $.uuid)
JobName(uuid) == <<"transcription-", uuid>>

\* States.Format('s3://{}/{}', $.filter_result.bucket, $.filter_result.key)
MediaFileUri(bucket, key) == <<"s3://", bucket, "/">> \o key

\* States.Format('transcriptions/{}.json', $.uuid)
TranscriptKey(uuid) == <<"transcriptions", "/", uuid, ".json">>

\* States.Format('translations/{}.mp3', $.uuid)
OutputKey(uuid) == <<"translations", "/", uuid, ".mp3">>

\* States.JsonToString(v) of a string: the string as a JSON literal
JsonToString(v) == <<"\"">> \o v \o <<"\"">>

\* the URI under which the service publishes a transcript
TranscriptFileUri(bucket, key) == <<"https://s3/", bucket, "/">> \o key

\* stand-ins for what the remote engines compute
Transcript(media) == <<"transcript-of:">> \o media
Translator(text) == <<"en:">> \o text
SynthesizeSpeech(text) == <<"mp3:">> \o text

\* BlobStore.put: one body per (bucket, key)
Put(store, bucket, key, body) ==
    {x \in store : ~(x.bucket = bucket /\ x.key = key)}
        \cup {[bucket |-> bucket, key |-> key, body |-> body]}

ServiceOutcomes == {"ok", "error"}

\* a job leaves IN_PROGRESS once; a COMPLETED job normally has a transcript
JobOutcomes ==
    {[status |-> "COMPLETED", uri |-> TRUE],
     [status |-> "COMPLETED", uri |-> FALSE],
     [status |-> "FAILED", uri |-> FALSE]}

\* the response of getTranscriptionJob: Transcript only once it exists
GetTranscriptionJob(j) ==
    [TranscriptionJob |->
        IF j.uri
        THEN [TranscriptionJobName |-> j.name,
              TranscriptionJobStatus |-> j.status,
              Transcript |->
                  [TranscriptFileUri |-> TranscriptFileUri(j.bucket, j.key)]]
        ELSE [TranscriptionJobName |-> j.name,
              TranscriptionJobStatus |-> j.status]]

\* the remote job reaches a terminal state; a transcript is written to the
\* job's OutputBucketName / OutputKey
JobProgress(j, o) ==
    /\ j \in jobs /\ j.status = "IN_PROGRESS"
    /\ jobs' = (jobs \ {j})
                 \cup {[j EXCEPT !.status = o.status, !.uri = o.uri]}
    /\ IF o.uri
       THEN /\ blob' = Put(blob, j.bucket, j.key, Transcript(j.media))
            /\ writes' = writes \cup {[run |-> j.owner, stage |-> "transcribe",
                                       bucket |-> j.bucket, key |-> j.key,
                                       decision |-> NoDecision]}
       ELSE UNCHANGED <<blob, writes>>
    /\ UNCHANGED <<run_vars, inflight, calls, hist>>

\* the service drops the record of a finished job
JobExpires(j) ==
    /\ j \in jobs /\ j.status # "IN_PROGRESS"
    /\ jobs' = jobs \ {j}
    /\ UNCHANGED <<run_vars, inflight, calls, hist, blob, writes>>

\* ------------------------------------------------------------------------
\* The chain guarded by is_process
\* ------------------------------------------------------------------------
\* generate_uuid.handler: returns its event with the new id added
generate_uuid(event, id) == SetField(event, "uuid", id)

\* uuid_task: LambdaInvoke, output_path = "$.Payload"; the task invokes
\* the handler and waits for the response
uuid_task(r, o, id) ==
    /\ status[r] = "RUNNING" /\ cur[r] = "Generate UUID"
    /\ inflight[r] = Idle
    /\ IF o = "service_exception"
       THEN /\ UNCHANGED <<calls, hist, inflight>>
            /\ IF attempts[r] < MaxAttempts
               THEN Retry(r)
               ELSE Fail(r, "Lambda.ServiceException")
       ELSE /\ calls' = Called(r, "uuid")
            /\ hist' = [hist EXCEPT ![r].uuid = id]
            /\ Succeeds(r, "Transcribe",
                        Envelope(generate_uuid(doc[r], id)).Payload)
            /\ UNCHANGED run_vars
    /\ UNCHANGED env_vars

\* transcribe_task: CallAwsService transcribe:startTranscriptionJob,
\* result_path = "$.transcription_result"; the task makes the call and
\* waits for the response
transcribe_task(r, o) ==
    /\ status[r] = "RUNNING" /\ cur[r] = "Transcribe"
    /\ inflight[r] = Idle
    /\ IF ~(/\ Present1(doc[r], "uuid")
            /\ Present2(doc[r], "filter_result", "bucket")
            /\ Present2(doc[r], "filter_result", "key"))
       THEN /\ Fail(r, "States.Runtime")
            /\ UNCHANGED <<calls, hist, jobs, inflight>>
       ELSE LET name == JobName(doc[r].uuid)
                job == [name |-> name,
                        owner |-> r,
                        status |-> "IN_PROGRESS",
                        uri |-> FALSE,
                        media |-> MediaFileUri(doc[r].filter_result.bucket,
                                               doc[r].filter_result.key),
                        bucket |-> StackBucket,
                        key |-> TranscriptKey(doc[r].uuid)]
            IN  /\ calls' = Called(r, "submit")
                /\ hist' = [hist EXCEPT ![r].job = name]
                /\ UNCHANGED run_vars
                /\ IF o = "error"
                   THEN Errors(r, "Transcribe.ServiceError") /\ UNCHANGED jobs
                   ELSE IF \E j \in jobs : j.name = name
                        THEN Errors(r, "Transcribe.ConflictException")
                                /\ UNCHANGED jobs
                        ELSE /\ jobs' = jobs \cup {job}
                             /\ Succeeds(r, "Get Transcription",
                                     SetField(doc[r], "transcription_result",
                                        [TranscriptionJob |->
                                           [TranscriptionJobName |-> name,
                                            TranscriptionJobStatus |->
                                                "IN_PROGRESS"]]))
    /\ UNCHANGED <<blob, writes>>

\* result_selector = {"transcript.$":
\*                    "$.TranscriptionJob.Transcript.TranscriptFileUri"}
result_selector(resp) ==
    IF Present3(resp, "TranscriptionJob", "Transcript", "TranscriptFileUri")
    THEN [ok |-> TRUE,
          out |-> [transcript |->
                      resp.TranscriptionJob.Transcript.TranscriptFileUri]]
    ELSE [ok |-> FALSE, out |-> [transcript |-> <<>>]]

\* get_transcription_task: CallAwsService transcribe:getTranscriptionJob,
\* one query, result_path = "$.transcription_output"; the task makes the
\* call and waits for the response
get_transcription_task(r, o) ==
    /\ status[r] = "RUNNING" /\ cur[r] = "Get Transcription"
    /\ inflight[r] = Idle
    /\ IF ~Present3(doc[r], "transcription_result", "TranscriptionJob",
                    "TranscriptionJobName")
       THEN /\ Fail(r, "States.Runtime")
            /\ UNCHANGED <<calls, hist, inflight>>
       ELSE LET name ==
                  doc[r].transcription_result.TranscriptionJob.TranscriptionJobName
            IN  /\ calls' = Called(r, "query")
                /\ UNCHANGED run_vars
                /\ IF o = "error"
                   THEN Errors(r, "Transcribe.ServiceError") /\ UNCHANGED hist
                   ELSE IF ~(\E j \in jobs : j.name = name)
                        THEN Errors(r, "Transcribe.NotFoundException")
                                /\ UNCHANGED hist
                        ELSE LET j == CHOOSE x \in jobs : x.name = name
                                 resp == GetTranscriptionJob(j)
                                 sel == result_selector(resp)
                             IN  /\ hist' = [hist EXCEPT
                                       ![r].observed = j.status,
                                       ![r].uri = sel.out.transcript]
                                 /\ IF sel.ok
                                    THEN Succeeds(r, "Translate",
                                           SetField(doc[r],
                                             "transcription_output", sel.out))
                                    ELSE Errors(r, "States.Runtime")
    /\ UNCHANGED env_vars

\* translate_task: CallAwsService translate:translateText,
\* result_path = "$.translation_result"; the task makes the call and
\* waits for the response
translate_task(r, o) ==
    /\ status[r] = "RUNNING" /\ cur[r] = "Translate"
    /\ inflight[r] = Idle
    /\ IF ~Present2(doc[r], "transcription_output", "transcript")
       THEN /\ Fail(r, "States.Runtime")
            /\ UNCHANGED <<calls, hist, inflight>>
       ELSE LET text == JsonToString(doc[r].transcription_output.transcript)
            IN  /\ calls' = Called(r, "translate")
                /\ hist' = [hist EXCEPT ![r].text = text]
                /\ UNCHANGED run_vars
                /\ IF o = "error"
                   THEN Errors(r, "Translate.ServiceError")
                   ELSE Succeeds(r, "Synthesize Speech",
                             SetField(doc[r], "translation_result",
                                [TranslatedText |-> Translator(text),
                                 SourceLanguageCode |-> "auto",
                                 TargetLanguageCode |-> "en"]))
    /\ UNCHANGED env_vars

\* ------------------------------------------------------------------------
\* lambda/polly.py
\* ------------------------------------------------------------------------
HandlerOutcomes == {"ok", "raises"}

\* json.dumps of a string: the string as a JSON literal
json_dumps(s) == <<"\"">> \o s \o <<"\"">>

\* the handler's return value
polly_handler(event) ==
    [statusCode |-> 200, body |-> json_dumps(<<"Synthesis complete">>)]

\* polly_task: LambdaInvoke with the payload {text, bucket_name, key};
\* the task starts an invocation of the handler and waits for its result
polly_task(r, o) ==
    /\ status[r] = "RUNNING" /\ cur[r] = "Synthesize Speech"
    /\ inflight[r] = Idle
    /\ IF ~(/\ Present2(doc[r], "translation_result", "TranslatedText")
            /\ Present1(doc[r], "uuid"))
       THEN Fail(r, "States.Runtime") /\ UNCHANGED inflight
       ELSE LET event == [text |-> doc[r].translation_result.TranslatedText,
                          bucket_name |-> StackBucket,
                          key |-> OutputKey(doc[r].uuid)]
            IN  IF o = "service_exception"
                THEN /\ UNCHANGED inflight
                     /\ IF attempts[r] < MaxAttempts
                        THEN Retry(r)
                        ELSE Fail(r, "Lambda.ServiceException")
                ELSE /\ inflight' = [inflight EXCEPT ![r] =
                                        [step |-> "invoked", event |-> event]]
                     /\ UNCHANGED run_vars
    /\ UNCHANGED <<calls, hist, env_vars>>

\* handler: polly_client.synthesize_speech(Text = event['text'])
polly_synthesize(r, o) ==
    /\ inflight[r].step = "invoked"
    /\ calls' = Called(r, "synthesize")
    /\ hist' = [hist EXCEPT ![r].spoken = inflight[r].event.text]
    /\ inflight' = [inflight EXCEPT ![r] =
                       IF o = "ok"
                       THEN [step |-> "synthesized", event |-> @.event,
                             audio |-> SynthesizeSpeech(@.event.text)]
                       ELSE [step |-> "raised"]]
    /\ UNCHANGED <<run_vars, env_vars>>

\* handler: s3_client.put_object(Bucket, Key, Body = the audio stream);
\* nothing between the two calls looks at the execution
polly_put(r, o) ==
    /\ inflight[r].step = "synthesized"
    /\ LET event == inflight[r].event
       IN  /\ calls' = Called(r, "put")
           /\ hist' = [hist EXCEPT ![r].bucket = event.bucket_name,
                                   ![r].key = event.key]
           /\ IF o = "ok"
              THEN /\ blob' = Put(blob, event.bucket_name, event.key,
                                  inflight[r].audio)
                   /\ writes' = writes \cup
                          {[run |-> r, stage |-> "synthesize",
                            bucket |-> event.bucket_name, key |-> event.key,
                            decision |-> NoDecision]}
                   /\ inflight' = [inflight EXCEPT ![r] =
                                      [step |-> "written", event |-> event]]
              ELSE /\ inflight' = [inflight EXCEPT ![r] = [step |-> "raised"]]
                   /\ UNCHANGED <<blob, writes>>
    /\ UNCHANGED <<run_vars, jobs>>

\* polly_lambda sets no timeout: the invocation is cut off at the default
\* one, wherever the handler is
polly_timeout(r) ==
    /\ inflight[r] # Idle
    /\ inflight[r].step \in {"invoked", "synthesized", "written"}
    /\ inflight' = [inflight EXCEPT ![r] = [step |-> "timedout"]]
    /\ UNCHANGED <<run_vars, calls, hist, env_vars>>

\* the invocation ends: the handler returns or its error is reported; an
\* execution that is still running takes it as the result of polly_task,
\* the last state of the chain
polly_result(r) ==
    /\ inflight[r] # Idle
    /\ inflight[r].step \in {"written", "raised", "timedout"}
    /\ inflight' = [inflight EXCEPT ![r] = Idle]
    /\ IF status[r] # "RUNNING"
       THEN UNCHANGED run_vars
       ELSE CASE inflight[r].step = "written" ->
                   /\ status' = [status EXCEPT ![r] = "SUCCEEDED"]
                   /\ doc' = [doc EXCEPT ![r] =
                                 Envelope(polly_handler(inflight[r].event))]
                   /\ attempts' = [attempts EXCEPT ![r] = 0]
                   /\ UNCHANGED <<cur, error>>
              [] inflight[r].step = "raised" -> Fail(r, "ClientError")
              [] inflight[r].step = "timedout" -> Fail(r, "Sandbox.Timedout")
    /\ UNCHANGED <<calls, hist, env_vars>>

\* ------------------------------------------------------------------------
\* The pipeline
\* ------------------------------------------------------------------------
\* definition: the execution runs the task of the state it is in
ExecuteState(r) ==
    CASE cur[r] = "Filter" -> \E o \in LambdaOutcomes : filter_task(r, o)
      [] cur[r] = "Should Process?" -> choice(r)
      [] cur[r] = "Do Nothing" -> do_nothing(r)
      [] cur[r] = "Generate UUID" ->
            \E o \in LambdaOutcomes, id \in Ids : uuid_task(r, o, id)
      [] cur[r] = "Transcribe" ->
            \E o \in ServiceOutcomes : transcribe_task(r, o)
      [] cur[r] = "Get Transcription" ->
            \E o \in ServiceOutcomes : get_transcription_task(r, o)
      [] cur[r] = "Translate" ->
            \E o \in ServiceOutcomes : translate_task(r, o)
      [] cur[r] = "Synthesize Speech" ->
            \E o \in LambdaOutcomes : polly_task(r, o)
      [] OTHER -> FALSE

\* what goes on for run r once its execution was started: the execution
\* runs its state, the response of a call arrives, the invocation of
\* lambda/polly.py takes its next step,
\* the transcription job of the run moves
Progress(r) ==
    /\ status[r] # "NONE"
    /\ \/ ExecuteState(r)
       \/ task_response(r)
       \/ \E o \in HandlerOutcomes : polly_synthesize(r, o)
       \/ \E o \in HandlerOutcomes : polly_put(r, o)
       \/ polly_timeout(r)
       \/ polly_result(r)
       \/ \E j \in jobs, o \in JobOutcomes : j.owner = r /\ JobProgress(j, o)
       \/ \E j \in jobs : j.owner = r /\ JobExpires(j)

\* what the stack does about the object of run r: the two triggers, the
\* execution if one was started, a stop of it, and the notifications of
\* what the run wrote
Pipeline(r) ==
    /\ hist[r].event # NoEvent
    /\ \/ BucketNotification(r)
       \/ StartExecution(r)
       \/ Progress(r)
       \/ StopExecution(r)
       \/ \E w \in writes : w.run = r /\ OutputNotification(w)

Next ==
    \/ \E r \in Runs, key \in EventKeys : ObjectCreated(r, key)
    \/ \E r \in Runs : Pipeline(r)

Spec == Init /\ [][Next]_vars

\* ------------------------------------------------------------------------
\* lambda/filter.py as a function of its event
\* ------------------------------------------------------------------------
\* the events the triggers of the stack are wired to hand to the handler:
\* the notification of any object of the bucket, and, as the input of the
\* Filter task, the event of an object that matches the rule
FilterEvents ==
    {S3Notification(StackBucket, key) : key \in EventKeys}
        \cup {ev \in {EventBridgeEvent(StackBucket, key) : key \in EventKeys} :
                 RuleMatches(ev)}

\* handler(event, context): the handler is applied to one event
ApplyFilter(r, ev) ==
    /\ hist[r].event = NoEvent
    /\ calls' = Called(r, "filter")
    /\ hist' = [hist EXCEPT
                   ![r].event = [bucket |-> ev.bucket, key |-> ev.key],
                   ![r].decision =
                       IF filter_raises([event |-> ev])
                       THEN [raised |-> "KeyError"]
                       ELSE filter_handler([event |-> ev])]
    /\ UNCHANGED <<run_vars, inflight, env_vars>>

FilterNext == \E r \in Runs, ev \in FilterEvents : ApplyFilter(r, ev)

FilterSpec == Init /\ [][FilterNext]_vars

\* S3 delivers the notification of every object, and whatever the stack
\* has started goes on
FairSpec == Spec /\ WF_vars(Next)

\* ------------------------------------------------------------------------
\* Outcomes of a run
\* ------------------------------------------------------------------------
\* the execution of the run failed
Failed(r) == status[r] = "FAILED"

\* the pipeline did nothing for the object: lambda/filter.py decided
\* against it and no execution was started for it
Skipped(r) ==
    /\ hist[r].decision = [should_process |-> FALSE]
    /\ status[r] = "NONE"

\* the execution of the run ended after its last state
Succeeded(r) == status[r] = "SUCCEEDED" /\ cur[r] = "Synthesize Speech"

\* the collaborators invoked after the Filter
Downstream == Collaborators \ {"filter"}

\* ------------------------------------------------------------------------
\* Claims
\* ------------------------------------------------------------------------

\* C1: for an object whose key starts with 'translations/' the pipeline
\* does nothing: once lambda/filter.py was handed its arrival, the decision
\* is should_process = false, no execution exists for it, and no
\* collaborator after the Filter is invoked on its behalf.
C1_SkippedUnderOutputPrefix ==
    \A r \in Runs :
        StartsWith(hist[r].event.key, OutputPrefix)
            => /\ hist[r].decision # NoDecision => Skipped(r)
               /\ status[r] = "NONE"
               /\ \A c \in Downstream : calls[r][c] = 0
               /\ ~\E w \in writes : w.run = r

C1_Witness ==
    \E r \in Runs :
        /\ hist[r].event.key = KeyOutput
        /\ calls[r]["filter"] = 1
        /\ Skipped(r)

\* C2: a run on an arrival event whose key does not start with
\* 'translations/' comes to an end, in exactly one of Succeeded and Failed
\* and not Skipped, with the run-id generator invoked exactly once in it.
C2_OneOutcomeOneRunId ==
    \A r \in Runs :
        (/\ hist[r].event # NoEvent
         /\ ~StartsWith(hist[r].event.key, OutputPrefix))
            ~> (/\ Succeeded(r) # Failed(r)
                /\ ~Skipped(r)
                /\ calls[r]["uuid"] = 1)

====
